---- MODULE Spec2Model ----
(***************************************************************************)
(* State-machine model of src/sw.js: the service worker of the local image *)
(* gallery.  The fetch listener decides whether a request is answered      *)
(* locally; handleRequest routes it to one of the handlers, which talk to  *)
(* the IndexedDB object store "images" (keyPath "filename").               *)
(*                                                                         *)
(* JavaScript strings are modelled as sequences of one-character strings,  *)
(* so that startsWith, slice, split, replace and decodeURIComponent are    *)
(* computed character by character as the code computes them.              *)
(***************************************************************************)
EXTENDS Integers, Sequences, FiniteSets, TLC

(***************************************************************************)
(* Bounds of the model.                                                    *)
(***************************************************************************)
\* Number of fetch events dispatched in one behaviour.
MaxRequests == 2
\* Date.now() takes the values 1..MaxTime.
MaxTime == 2
\* Longest name drawn, character by character, for a helper evaluated on its own.
MaxNameLen == 3

(***************************************************************************)
(* JavaScript string primitives.                                           *)
(***************************************************************************)
\* String.prototype.startsWith
StartsWith(s, p) == Len(s) >= Len(p) /\ SubSeq(s, 1, Len(p)) = p

\* String.prototype.slice(n) / substring(n), 0 <= n
Slice(s, n) == SubSeq(s, n + 1, Len(s))

\* String.prototype.lastIndexOf(c), 1-based; 0 when c does not occur
LastIndexOf(s, c) ==
    IF \E i \in 1..Len(s) : s[i] = c
    THEN CHOOSE i \in 1..Len(s) : s[i] = c /\ \A j \in (i + 1)..Len(s) : s[j] # c
    ELSE 0

\* s.split(c).pop(): what follows the last c, the whole string when there is none
SplitPop(s, c) == Slice(s, LastIndexOf(s, c))

UpperCase == <<"A", "B", "C", "D", "E", "F", "G", "H", "I", "J", "K", "L", "M",
               "N", "O", "P", "Q", "R", "S", "T", "U", "V", "W", "X", "Y", "Z">>
LowerCase == <<"a", "b", "c", "d", "e", "f", "g", "h", "i", "j", "k", "l", "m",
               "n", "o", "p", "q", "r", "s", "t", "u", "v", "w", "x", "y", "z">>

\* String.prototype.toLowerCase on ASCII
toLowerCase(s) ==
    [i \in 1..Len(s) |->
        IF \E k \in 1..26 : UpperCase[k] = s[i]
        THEN LowerCase[CHOOSE k \in 1..26 : UpperCase[k] = s[i]]
        ELSE s[i]]

DecimalDigit == <<"0", "1", "2", "3", "4", "5", "6", "7", "8", "9">>

\* Number to decimal string, as a template literal `${n}` renders it (n >= 0)
RECURSIVE NumberToString(_)
NumberToString(n) ==
    IF n < 10 THEN <<DecimalDigit[n + 1]>>
    ELSE NumberToString(n \div 10) \o <<DecimalDigit[(n % 10) + 1]>>

(***************************************************************************)
(* decodeURIComponent.  The result is [ok, value]: ok = FALSE stands for   *)
(* the URIError the platform throws on malformed percent-encoding.         *)
(* Escapes of ASCII bytes decode to the character of the printable table;  *)
(* a lead byte of a multi-byte UTF-8 sequence needs its continuation bytes *)
(* (each one a %XX escape in 80..BF), otherwise the input is malformed.    *)
(* A decoded non-ASCII or control character is rendered as one token.      *)
(***************************************************************************)
HexDigit == <<"0", "1", "2", "3", "4", "5", "6", "7", "8", "9",
              "A", "B", "C", "D", "E", "F">>

IsHex(c) == \E k \in 1..16 : HexDigit[k] = c \/ (k > 10 /\ LowerCase[k - 10] = c)

HexVal(c) == (CHOOSE k \in 1..16 : HexDigit[k] = c \/ (k > 10 /\ LowerCase[k - 10] = c)) - 1

\* The printable ASCII characters, codes 32..126 (code 96 is written by name)
Ascii == <<" ", "!", "\"", "#", "$", "%", "&", "'", "(", ")", "*", "+", ",", "-", ".", "/",
           "0", "1", "2", "3", "4", "5", "6", "7", "8", "9", ":", ";", "<", "=", ">", "?",
           "@", "A", "B", "C", "D", "E", "F", "G", "H", "I", "J", "K", "L", "M", "N", "O",
           "P", "Q", "R", "S", "T", "U", "V", "W", "X", "Y", "Z", "[", "\\", "]", "^", "_",
           "<backtick>", "a", "b", "c", "d", "e", "f", "g", "h", "i", "j", "k", "l", "m", "n", "o",
           "p", "q", "r", "s", "t", "u", "v", "w", "x", "y", "z", "{", "|", "}", "~">>

FromCharCode(b) == IF b \in 32..126 THEN Ascii[b - 31] ELSE "<control>"

\* Is s[i..i+2] an escape %XX ?
IsEscapeAt(s, i) == i + 2 <= Len(s) /\ s[i] = "%" /\ IsHex(s[i + 1]) /\ IsHex(s[i + 2])

ByteAt(s, i) == 16 * HexVal(s[i + 1]) + HexVal(s[i + 2])

\* Number of continuation bytes a UTF-8 lead byte announces; -1 for a byte
\* that cannot start a sequence
Continuations(b) ==
    IF b < 128 THEN 0
    ELSE IF b \in 194..223 THEN 1
    ELSE IF b \in 224..239 THEN 2
    ELSE IF b \in 240..244 THEN 3
    ELSE -1

RECURSIVE DecodeFrom(_, _)
DecodeFrom(s, i) ==
    IF i > Len(s) THEN [ok |-> TRUE, value |-> <<>>]
    ELSE IF s[i] # "%"
    THEN LET rest == DecodeFrom(s, i + 1)
         IN  [ok |-> rest.ok, value |-> <<s[i]>> \o rest.value]
    ELSE IF ~IsEscapeAt(s, i) THEN [ok |-> FALSE, value |-> <<>>]
    ELSE LET b == ByteAt(s, i)
             n == Continuations(b)
         IN  IF n < 0 \/ \E k \in 1..n : ~(IsEscapeAt(s, i + 3 * k)
                                           /\ ByteAt(s, i + 3 * k) \in 128..191)
             THEN [ok |-> FALSE, value |-> <<>>]
             ELSE LET rest == DecodeFrom(s, i + 3 * (n + 1))
                      ch   == IF n = 0 THEN FromCharCode(b) ELSE "<non-ascii>"
                  IN  [ok |-> rest.ok, value |-> <<ch>> \o rest.value]

decodeURIComponent(s) == DecodeFrom(s, 1)

(***************************************************************************)
(* Pure helpers of sw.js.                                                  *)
(***************************************************************************)
\* getContentType: the table `types`.  An object literal also answers for the
\* names it inherits from Object.prototype; of those only "constructor" and
\* "__proto__" are all lower case, and both are truthy values that are no
\* MIME type of the table.
TypeTable ==
    << <<<<"j", "p", "g">>,           "image/jpeg">>,
       <<<<"j", "p", "e", "g">>,      "image/jpeg">>,
       <<<<"p", "n", "g">>,           "image/png">>,
       <<<<"g", "i", "f">>,           "image/gif">>,
       <<<<"w", "e", "b", "p">>,      "image/webp">>,
       <<<<"s", "v", "g">>,           "image/svg+xml">>,
       <<<<"b", "m", "p">>,           "image/bmp">>,
       <<<<"a", "v", "i", "f">>,      "image/avif">>,
       <<<<"t", "i", "f", "f">>,      "image/tiff">> >>

InheritedNames ==
    { <<"c", "o", "n", "s", "t", "r", "u", "c", "t", "o", "r">>,
      <<"_", "_", "p", "r", "o", "t", "o", "_", "_">> }

\* types[ext]: "" stands for undefined
TypeLookup(ext) ==
    IF \E k \in 1..Len(TypeTable) : TypeTable[k][1] = ext
    THEN TypeTable[CHOOSE k \in 1..Len(TypeTable) : TypeTable[k][1] = ext][2]
    ELSE IF ext \in InheritedNames THEN "<inherited Object.prototype member>"
    ELSE ""

getContentType(filename) ==
    LET ext == SplitPop(toLowerCase(filename), ".")
    IN  IF TypeLookup(ext) # "" THEN TypeLookup(ext) ELSE "image/jpeg"

\* originalName.replace(/\.[^/.]+$/, ""): the match can only start at the last
\* ".", and needs one or more characters after it, none of them "/"
StripExt(name) ==
    LET p == LastIndexOf(name, ".")
    IN  IF p > 0 /\ p < Len(name) /\ \A j \in (p + 1)..Len(name) : name[j] # "/"
        THEN SubSeq(name, 1, p - 1)
        ELSE name

\* generateUniqueFilename, with Date.now() = now and the random suffix drawn
generateUniqueFilename(originalName, now, random) ==
    LET ext            == SplitPop(originalName, ".")
        nameWithoutExt == StripExt(originalName)
    IN  NumberToString(now) \o <<"-">> \o random \o <<"-">> \o nameWithoutExt \o <<".">> \o ext

(***************************************************************************)
(* The registration and the values the service worker handles.             *)
(***************************************************************************)
\* self.registration.scope, as new URL(scope) parses it
Scope == [origin |-> "https://gallery.example", pathname |-> <<"/", "g", "/">>]

OtherOrigin == "https://cdn.example"

\* getApiBase: new URL('.', scope).href.slice(0, -1).  '.' resolves to the
\* directory of the scope's path (up to and including its last "/"); the
\* slice drops that last character.
getApiBase ==
    LET dir == SubSeq(Scope.pathname, 1, LastIndexOf(Scope.pathname, "/"))
    IN  [origin |-> Scope.origin, pathname |-> SubSeq(dir, 1, Len(dir) - 1)]

\* A Blob: its bytes and its declared media type ("" when none is declared);
\* blob.size is the number of bytes.
BlobSize(blob) == Len(blob.data)

NoBlob == [data |-> <<>>, type |-> ""]

\* The record storeImage puts; NoItem is the value of an unset local
NoItem == [filename |-> <<>>, blob |-> NoBlob, timestamp |-> 0, size |-> 0, type |-> ""]

\* imageData with the size left out of the record
imageData_NoSize(filename, blob, timestamp) ==
    [filename  |-> filename,
     blob      |-> blob,
     timestamp |-> timestamp,
     size      |-> 0,
     type      |-> IF blob.type # "" THEN blob.type ELSE "image/jpeg"]

\* the record storeImage builds and puts
imageData(filename, blob, timestamp) ==
    [filename  |-> filename,
     blob      |-> blob,
     timestamp |-> timestamp,
     size      |-> BlobSize(blob),
     type      |-> IF blob.type # "" THEN blob.type ELSE "image/jpeg"]

\* Math.random().toString(36).substring(2, 8)
RandomStrings == { <<"k", "3", "x", "9", "q", "z">>, <<"0", "f", "7", "m", "2", "b">> }

\* error.message of the failures the platform raises
StoreErrorMessage    == <<"s", "t", "o", "r", "e", " ", "f", "a", "i", "l", "u", "r", "e">>
FormDataErrorMessage == <<"b", "o", "d", "y", " ", "i", "s", " ", "n", "o", "t", " ", "f", "o", "r", "m", " ", "d", "a", "t", "a">>
JsonErrorMessage     == <<"b", "o", "d", "y", " ", "i", "s", " ", "n", "o", "t", " ", "J", "S", "O", "N">>
NetworkErrorMessage  == <<"n", "e", "t", "w", "o", "r", "k", " ", "f", "a", "i", "l", "u", "r", "e">>
BodyErrorMessage     == <<"b", "o", "d", "y", " ", "s", "t", "r", "e", "a", "m", " ", "f", "a", "i", "l", "u", "r", "e">>
URIErrorMessage      == <<"U", "R", "I", " ", "m", "a", "l", "f", "o", "r", "m", "e", "d">>
\* ReferenceError: neither `path` (line 68) nor `API_BASE` (lines 131, 190) is
\* declared anywhere in sw.js or provided by the worker's global scope
PathReferenceError    == <<"p", "a", "t", "h", " ", "i", "s", " ", "n", "o", "t", " ", "d", "e", "f", "i", "n", "e", "d">>
ApiBaseReferenceError == <<"A", "P", "I", "_", "B", "A", "S", "E", " ", "i", "s", " ", "n", "o", "t", " ", "d", "e", "f", "i", "n", "e", "d">>

(***************************************************************************)
(* Responses.  outcome is "response" for a Response object, "rejected"     *)
(* when the promise given to respondWith rejects, "network" when           *)
(* respondWith is not called and the browser performs the request itself,  *)
(* and "none" while nothing has been decided.                              *)
(***************************************************************************)
NoHeaders == [contentType |-> "", cacheControl |-> "", allowOrigin |-> ""]

NoResponse == [outcome |-> "none", status |-> 0, headers |-> NoHeaders, body |-> <<>>]

NetworkResponse == [NoResponse EXCEPT !.outcome = "network"]

Rejected(message) == [NoResponse EXCEPT !.outcome = "rejected", !.body = message]

\* new Response(text, {status}): a string body gets the default text type
TextResponse(status, text) ==
    [outcome |-> "response", status |-> status,
     headers |-> [NoHeaders EXCEPT !.contentType = "text/plain;charset=UTF-8"],
     body |-> text]

\* new Response(JSON.stringify(value), {status, headers: {'Content-Type': 'application/json'}})
JsonResponse(status, value) ==
    [outcome |-> "response", status |-> status,
     headers |-> [NoHeaders EXCEPT !.contentType = "application/json"],
     body |-> value]

\* the same with 'Access-Control-Allow-Origin': '*'
JsonCorsResponse(status, value) ==
    [outcome |-> "response", status |-> status,
     headers |-> [NoHeaders EXCEPT !.contentType = "application/json", !.allowOrigin = "*"],
     body |-> value]

\* `${getApiBase()}/get/${filename}`
ImageUrl(filename) ==
    [origin |-> getApiBase.origin,
     pathname |-> getApiBase.pathname \o <<"/", "g", "e", "t", "/">> \o filename]

(***************************************************************************)
(* Requests.  A request is its method, its parsed URL and its body.  A     *)
(* multipart body is the sequence of its `images` entries (files, or plain *)
(* string fields); a JSON body is {url, filename?}.  A URL string given in *)
(* a JSON body is represented by what the code observes of it: whether it  *)
(* is a non-empty string (`!url`), whether new URL(url) parses it without  *)
(* a base, and its pathname.                                               *)
(***************************************************************************)
NoUrl == [given |-> FALSE, parses |-> FALSE, pathname |-> <<>>]

NoBody == [kind |-> "none", images |-> <<>>, url |-> NoUrl, filename |-> <<>>]

FormBody(images) == [NoBody EXCEPT !.kind = "form", !.images = images]

JsonBody(url, filename) == [NoBody EXCEPT !.kind = "json", !.url = url, !.filename = filename]

FileEntry(name, blob) == [isFile |-> TRUE, name |-> name, blob |-> blob]

\* a form field `images` that carries text, not a file
TextEntry == [isFile |-> FALSE, name |-> <<>>, blob |-> NoBlob]

PngBlob   == [data |-> <<137, 80>>, type |-> "image/png"]
PlainBlob == [data |-> <<7>>, type |-> ""]
EmptyBlob == [data |-> <<>>, type |-> "image/gif"]

CatPng == <<"c", "a", "t", ".", "p", "n", "g">>
Readme == <<"R", "E", "A", "D", "M", "E">>
XGif   == <<"x", ".", "G", "I", "F">>
\* a name whose extension is a member every object inherits
AConstructor == <<"a", ".", "c", "o", "n", "s", "t", "r", "u", "c", "t", "o", "r">>
MissingJpg == <<"m", "i", "s", "s", "i", "n", "g", ".", "j", "p", "g">>

FormBodies ==
    { FormBody(<<FileEntry(CatPng, PngBlob)>>),
      FormBody(<<TextEntry, FileEntry(Readme, PlainBlob)>>),
      FormBody(<<FileEntry(XGif, EmptyBlob), FileEntry(CatPng, PngBlob)>>),
      FormBody(<<FileEntry(AConstructor, PlainBlob)>>),
      FormBody(<<>>) }

CatUrl   == [given |-> TRUE, parses |-> TRUE,  pathname |-> <<"/", "a", "/", "b", "/", "c", "a", "t", ".", "p", "n", "g">>]
DirUrl   == [given |-> TRUE, parses |-> TRUE,  pathname |-> <<"/", "a", "/">>]
RelUrl   == [given |-> TRUE, parses |-> FALSE, pathname |-> <<>>]

JsonBodies ==
    { JsonBody(CatUrl, <<>>), JsonBody(DirUrl, <<>>), JsonBody(RelUrl, XGif), JsonBody(NoUrl, <<>>) }

\* What the remote server answers to fetch(url)
RemoteResponses ==
    { [status |-> 200, blob |-> PngBlob], [status |-> 200, blob |-> PlainBlob],
      [status |-> 404, blob |-> PlainBlob] }

Req(method, origin, pathname, body) ==
    [method |-> method, url |-> [origin |-> origin, pathname |-> pathname], body |-> body]

NoRequest == Req("", "", <<>>, NoBody)

Under(rel) == Scope.pathname \o rel

ListJson  == <<"l", "i", "s", "t", ".", "j", "s", "o", "n">>
Upload    == <<"u", "p", "l", "o", "a", "d">>
UploadUrl == <<"u", "p", "l", "o", "a", "d", "-", "u", "r", "l">>
Api       == <<"a", "p", "i">>
DeleteSlash == <<"d", "e", "l", "e", "t", "e", "/">>
GetSlash    == <<"g", "e", "t", "/">>
IndexHtml == <<"i", "n", "d", "e", "x", ".", "h", "t", "m", "l">>
\* an escape sequence cut short: not valid percent-encoding
Malformed == <<"%", "E", "0", "%", "A", "4", "%", "A">>

\* The requests that do not name a stored key
FixedRequests ==
    { Req("GET", OtherOrigin, Under(ListJson), NoBody),
      Req("DELETE", Scope.origin, <<"/">> \o DeleteSlash \o CatPng, NoBody),
      Req("GET", Scope.origin, Under(IndexHtml), NoBody),
      Req("POST", Scope.origin, Under(ListJson), NoBody),
      Req("GET", Scope.origin, Under(Upload), NoBody),
      Req("DELETE", Scope.origin, Under(Api), NoBody),
      Req("GET", Scope.origin, Under(Api), NoBody),
      Req("GET", Scope.origin, Under(ListJson), NoBody),
      Req("POST", Scope.origin, Under(Upload), NoBody),
      Req("POST", Scope.origin, Under(UploadUrl), NoBody),
      Req("GET", Scope.origin, Under(GetSlash \o Malformed), NoBody),
      Req("DELETE", Scope.origin, Under(DeleteSlash \o Malformed), NoBody) }
    \cup { Req("POST", Scope.origin, Under(Upload), b) : b \in FormBodies }
    \cup { Req("POST", Scope.origin, Under(UploadUrl), b) : b \in JsonBodies }

\* The keys a client asks for: those it was told about, and one never stored
Keys(items) == { x.filename : x \in items } \cup { MissingJpg }

KeyRequests(items) ==
    { Req("GET", Scope.origin, Under(GetSlash \o k), NoBody) : k \in Keys(items) }
    \cup { Req("DELETE", Scope.origin, Under(DeleteSlash \o k), NoBody) : k \in Keys(items) }

(***************************************************************************)
(* The object store "images" (keyPath "filename"), as the set of its       *)
(* records; each operation runs in its own transaction.                    *)
(***************************************************************************)
\* IDBObjectStore.put: replaces the record of the same key
\* a put that replaces the whole content of the object store
StorePut_Only(items, item) == { item }

\* IDBObjectStore.put: the record replaces the one under the same key
StorePut(items, item) == { x \in items : x.filename # item.filename } \cup { item }

\* a delete that clears the object store
StoreDelete_Clear(items, key) == {}

\* IDBObjectStore.delete
StoreDelete(items, key) == { x \in items : x.filename # key }

\* a get that ignores its key
StoreGet_AnyKey(items, key) == items

\* IDBObjectStore.get: the set of records under the key (empty: undefined)
StoreGet(items, key) == { x \in items : x.filename = key }

\* IDBObjectStore.getAll: the records as an array
RECURSIVE StoreGetAll(_)
StoreGetAll(items) ==
    IF items = {} THEN <<>>
    ELSE LET x == CHOOSE y \in items : TRUE
         IN  <<x>> \o StoreGetAll(items \ {x})

(***************************************************************************)
(* State.                                                                  *)
(***************************************************************************)
\* Fetch events in flight at the same time are told apart by a slot
Clients == {1, 2}

VARIABLES
    store,      \* the records of the object store
    now,        \* what Date.now() returns
    issued,     \* number of fetch events dispatched so far
    pc,         \* per slot: where the request's asynchronous task stands
    request,    \* per slot: the request of the fetch event
    frame,      \* per slot: the handler that runs, its locals, the store calls it made
    response,   \* per slot: what respondWith was given, once settled
    call        \* a helper function evaluated on its own: its argument and result

vars == <<store, now, issued, pc, request, frame, response, call>>

\* remoteStatus is response.status of handleUploadFromUrl's fetch(url), 0
\* while there is none
NoFrame ==
    [handler |-> "none", filename |-> <<>>, blob |-> NoBlob, item |-> NoItem,
     remoteStatus |-> 0, ops |-> <<>>]

\* no helper is evaluated on its own while the worker serves requests
NoCall == [fn |-> "none", name |-> <<>>, now |-> 0, random |-> <<>>, generated |-> <<>>, type |-> ""]

\* The object store outlives the worker: when the worker starts it holds what
\* earlier activations stored, records of the shape storeImage writes.
PersistedItem ==
    imageData(generateUniqueFilename(CatPng, 0, <<"0", "f", "7", "m", "2", "b">>), PngBlob, 0)

Init ==
    /\ store \in { {}, {PersistedItem} }
    /\ now = 1
    /\ issued = 0
    /\ pc = [c \in Clients |-> "idle"]
    /\ request = [c \in Clients |-> NoRequest]
    /\ frame = [c \in Clients |-> NoFrame]
    /\ response = [c \in Clients |-> NoResponse]
    /\ call = NoCall

\* The clock advances between any two steps
Tick ==
    /\ now < MaxTime
    /\ now' = now + 1
    /\ UNCHANGED <<store, issued, pc, request, frame, response, call>>

(***************************************************************************)
(* The fetch listener and handleRequest.                                   *)
(***************************************************************************)
\* InScope without the comparison of origins
InScope_AnyOrigin(url) == StartsWith(url.pathname, Scope.pathname)

\* url.origin === scope.origin && url.pathname.startsWith(scope.pathname)
InScope(url) == url.origin = Scope.origin /\ StartsWith(url.pathname, Scope.pathname)

\* url.pathname.slice(scope.pathname.length)
RelativePath(url) == Slice(url.pathname, Len(Scope.pathname))

\* the paths the listener answers for
IsApiPath(relativePath) ==
    \/ relativePath = ListJson
    \/ relativePath = Upload
    \/ relativePath = UploadUrl
    \/ relativePath = Api
    \/ StartsWith(relativePath, DeleteSlash)
    \/ StartsWith(relativePath, GetSlash)

Intercepted(req) == InScope(req.url) /\ IsApiPath(RelativePath(req.url))

\* handleRequest up to its first suspension: the handler entered and the
\* position it waits at, or the settled promise.  decodeURIComponent and the
\* reference to `path` throw inside the async function, which rejects its
\* promise.
Entered(handler, at, filename) ==
    [handler |-> handler, pc |-> at, filename |-> filename, response |-> NoResponse]

Settled(resp) == [handler |-> "none", pc |-> "done", filename |-> <<>>, response |-> resp]

handleRequest(method, relativePath) ==
    IF method = "GET" /\ relativePath = ListJson
    THEN Entered("handleListImages", "list_open", <<>>)
    ELSE IF method = "POST" /\ relativePath = Upload
    THEN Entered("handleUploadImage", "upload_form", <<>>)
    ELSE IF method = "POST" /\ relativePath = UploadUrl
    THEN Entered("handleUploadFromUrl", "url_json", <<>>)
    ELSE IF method = "DELETE" /\ StartsWith(relativePath, DeleteSlash)
    THEN LET filename == decodeURIComponent(Slice(relativePath, 7))
         IN  IF filename.ok
             THEN Entered("handleDeleteImage", "delete_open", filename.value)
             ELSE Settled(Rejected(URIErrorMessage))
    ELSE IF method = "GET" /\ StartsWith(relativePath, GetSlash)
    THEN LET filename == decodeURIComponent(Slice(relativePath, 4))
         IN  IF filename.ok
             THEN Entered("handleServeImage", "serve_open", filename.value)
             ELSE Settled(Rejected(URIErrorMessage))
    ELSE IF method = "GET"
    THEN Settled(Rejected(PathReferenceError))
    ELSE Settled(TextResponse(404, <<"N", "o", "t", " ", "F", "o", "u", "n", "d">>))

\* A fetch event: respondWith(handleRequest(...)) for a request under the
\* scope that names an API path; any other request is left to the network.
Fetch(c) ==
    /\ pc[c] \in {"idle", "done"}
    /\ issued < MaxRequests
    /\ \E req \in FixedRequests \cup KeyRequests(store) :
          LET step == handleRequest(req.method, RelativePath(req.url))
          IN  /\ request' = [request EXCEPT ![c] = req]
              /\ IF Intercepted(req)
                 THEN /\ pc' = [pc EXCEPT ![c] = step.pc]
                      /\ response' = [response EXCEPT ![c] = step.response]
                      /\ frame' = [frame EXCEPT ![c] = [NoFrame EXCEPT !.handler = step.handler,
                                                                     !.filename = step.filename]]
                 ELSE /\ pc' = [pc EXCEPT ![c] = "done"]
                      /\ response' = [response EXCEPT ![c] = NetworkResponse]
                      /\ frame' = [frame EXCEPT ![c] = NoFrame]
    /\ issued' = issued + 1
    /\ UNCHANGED <<store, now, call>>

(***************************************************************************)
(* Steps shared by the handlers.                                           *)
(***************************************************************************)
\* the promise of the handler settles with resp
Return(c, resp) ==
    /\ pc' = [pc EXCEPT ![c] = "done"]
    /\ response' = [response EXCEPT ![c] = resp]

\* a store call of the request, kept with its outcome
Called(c, op, key, ok) ==
    [frame EXCEPT ![c].ops = Append(@, [op |-> op, key |-> key, ok |-> ok])]

\* catch (error): { success: false, error: error.message }, status 500
FailureResponse(message) == JsonResponse(500, [success |-> FALSE, error |-> message])

(***************************************************************************)
(* handleListImages.                                                       *)
(***************************************************************************)
\* ListEntry with the type resolved from the filename
ListEntry_Resolved(img) ==
    [filename  |-> img.filename,
     timestamp |-> img.timestamp,
     size      |-> IF img.size # 0 THEN img.size ELSE 0,
     type      |-> getContentType(img.filename),
     url       |-> ImageUrl(img.filename)]

\* images.map(img => ({filename, timestamp, size: img.size || 0,
\*                     type: img.type || 'image/jpeg', url}))
ListEntry(img) ==
    [filename  |-> img.filename,
     timestamp |-> img.timestamp,
     size      |-> IF img.size # 0 THEN img.size ELSE 0,
     type      |-> IF img.type # "" THEN img.type ELSE "image/jpeg",
     url       |-> ImageUrl(img.filename)]

imageList(images) == [i \in 1..Len(images) |-> ListEntry(images[i])]

\* await openDB()
ListOpen(c) ==
    /\ pc[c] = "list_open"
    /\ \E ok \in BOOLEAN :
          /\ frame' = Called(c, "open", <<>>, ok)
          /\ IF ok
             THEN /\ pc' = [pc EXCEPT ![c] = "list_getAll"]
                  /\ UNCHANGED response
             ELSE Return(c, JsonResponse(500, [error |-> StoreErrorMessage]))
    /\ UNCHANGED <<store, now, issued, request, call>>

\* await getAllImages(db), then the response
ListGetAll(c) ==
    /\ pc[c] = "list_getAll"
    /\ \E ok \in BOOLEAN :
          /\ frame' = Called(c, "getAll", <<>>, ok)
          /\ IF ok
             THEN Return(c, JsonCorsResponse(200, imageList(StoreGetAll(store))))
             ELSE Return(c, JsonResponse(500, [error |-> StoreErrorMessage]))
    /\ UNCHANGED <<store, now, issued, request, call>>

(***************************************************************************)
(* handleUploadImage.                                                      *)
(***************************************************************************)
\* await request.formData(); formData.getAll('images'); openDB() is called
UploadForm(c) ==
    /\ pc[c] = "upload_form"
    /\ IF request[c].body.kind = "form"
       THEN /\ pc' = [pc EXCEPT ![c] = "upload_open"]
            /\ UNCHANGED response
       ELSE Return(c, FailureResponse(FormDataErrorMessage))
    /\ UNCHANGED <<store, now, issued, request, frame, call>>

\* the entries of `files` that are File objects, from position i on
FilesFrom(files, i) == { k \in i..Len(files) : files[k].isFile }

\* await openDB() returns; the loop runs up to its first storeImage call:
\* generateUniqueFilename(file.name), then storeImage builds the record and
\* issues the put.  With no File among the entries the loop ends and the
\* handler answers {success: true, uploaded: []}.
UploadOpen(c) ==
    /\ pc[c] = "upload_open"
    /\ \E ok \in BOOLEAN, random \in RandomStrings :
          LET files == request[c].body.images
          IN  IF ~ok
              THEN /\ frame' = Called(c, "open", <<>>, FALSE)
                   /\ Return(c, FailureResponse(StoreErrorMessage))
              ELSE IF FilesFrom(files, 1) = {}
              THEN /\ frame' = Called(c, "open", <<>>, TRUE)
                   /\ Return(c, JsonCorsResponse(200, [success |-> TRUE, uploaded |-> <<>>]))
              ELSE LET k        == CHOOSE k \in FilesFrom(files, 1) :
                                       \A j \in FilesFrom(files, 1) : k <= j
                       filename == generateUniqueFilename(files[k].name, now, random)
                   IN  /\ frame' = [Called(c, "open", <<>>, TRUE) EXCEPT
                                       ![c].filename = filename,
                                       ![c].blob = files[k].blob,
                                       ![c].item = imageData(filename, files[k].blob, now)]
                       /\ pc' = [pc EXCEPT ![c] = "upload_put"]
                       /\ UNCHANGED response
    /\ UNCHANGED <<store, now, issued, request, call>>

\* UploadPut with the record written although storeImage rejects
UploadPut_Commit(c) ==
    /\ pc[c] = "upload_put"
    /\ \E ok \in BOOLEAN :
          /\ frame' = Called(c, "put", frame[c].filename, ok)
          /\ store' = StorePut(store, frame[c].item)
          /\ IF ok
             THEN Return(c, FailureResponse(ApiBaseReferenceError))
             ELSE Return(c, FailureResponse(StoreErrorMessage))
    /\ UNCHANGED <<now, issued, request, call>>

\* await storeImage(db, filename, file) returns.  On success the record is in
\* the store; results.push({..., url: `${API_BASE}/get/${filename}`}) then
\* throws the ReferenceError, which the handler's catch turns into status 500.
UploadPut(c) ==
    /\ pc[c] = "upload_put"
    /\ \E ok \in BOOLEAN :
          /\ frame' = Called(c, "put", frame[c].filename, ok)
          /\ IF ok
             THEN /\ store' = StorePut(store, frame[c].item)
                  /\ Return(c, FailureResponse(ApiBaseReferenceError))
             ELSE /\ UNCHANGED store
                  /\ Return(c, FailureResponse(StoreErrorMessage))
    /\ UNCHANGED <<now, issued, request, call>>

(***************************************************************************)
(* handleUploadFromUrl.                                                    *)
(***************************************************************************)
\* new URL(url).pathname.split('/').pop(); null (here <<>>, as falsy as the
\* empty string) when the URL does not parse
extractFilenameFromUrl(url) ==
    IF url.parses THEN SplitPop(url.pathname, "/") ELSE <<>>

\* filename || extractFilenameFromUrl(url) || `image-${Date.now()}.jpg`
finalFilename(filename, url, t) ==
    IF filename # <<>> THEN filename
    ELSE IF extractFilenameFromUrl(url) # <<>> THEN extractFilenameFromUrl(url)
    ELSE <<"i", "m", "a", "g", "e", "-">> \o NumberToString(t) \o <<".", "j", "p", "g">>

\* FailedToFetch without the status
FailedToFetch_NoStatus(status) ==
    <<"F", "a", "i", "l", "e", "d", " ", "t", "o", " ", "f", "e", "t", "c", "h">>

\* `Failed to fetch: ${response.status}`
FailedToFetch(status) ==
    <<"F", "a", "i", "l", "e", "d", " ", "t", "o", " ", "f", "e", "t", "c", "h", ":", " ">>
        \o NumberToString(status)

\* UrlJson without the check of url
UrlJson_NoCheck(c) ==
    /\ pc[c] = "url_json"
    /\ IF request[c].body.kind # "json"
       THEN Return(c, FailureResponse(JsonErrorMessage))
       ELSE /\ pc' = [pc EXCEPT ![c] = "url_fetch"]
            /\ UNCHANGED response
    /\ UNCHANGED <<store, now, issued, request, frame, call>>

\* await request.json(); the check of url; fetch(url) is called
UrlJson(c) ==
    /\ pc[c] = "url_json"
    /\ IF request[c].body.kind # "json"
       THEN Return(c, FailureResponse(JsonErrorMessage))
       ELSE IF ~request[c].body.url.given
       THEN Return(c, JsonResponse(400, [success |-> FALSE,
                error |-> <<"U", "R", "L", " ", "i", "s", " ", "r", "e", "q", "u", "i", "r", "e", "d">>]))
       ELSE /\ pc' = [pc EXCEPT ![c] = "url_fetch"]
            /\ UNCHANGED response
    /\ UNCHANGED <<store, now, issued, request, frame, call>>

\* await fetch(url) returns or throws; response.ok is status in 200..299;
\* response.blob() is called
UrlFetch(c) ==
    /\ pc[c] = "url_fetch"
    /\ \E ok \in BOOLEAN, remote \in RemoteResponses :
          IF ~ok
          THEN /\ Return(c, FailureResponse(NetworkErrorMessage))
               /\ UNCHANGED frame
          ELSE IF remote.status \notin 200..299
          THEN /\ Return(c, FailureResponse(FailedToFetch(remote.status)))
               /\ frame' = [frame EXCEPT ![c].remoteStatus = remote.status]
          ELSE /\ pc' = [pc EXCEPT ![c] = "url_blob"]
               /\ frame' = [frame EXCEPT ![c].remoteStatus = remote.status,
                                         ![c].blob = remote.blob]
               /\ UNCHANGED response
    /\ UNCHANGED <<store, now, issued, request, call>>

\* await response.blob() returns; the unique filename; openDB() is called
UrlBlob(c) ==
    /\ pc[c] = "url_blob"
    /\ \E ok \in BOOLEAN, random \in RandomStrings :
          IF ~ok
          THEN /\ Return(c, FailureResponse(BodyErrorMessage))
               /\ UNCHANGED frame
          ELSE LET body == request[c].body
                   uniqueFilename ==
                       generateUniqueFilename(finalFilename(body.filename, body.url, now),
                                              now, random)
               IN  /\ pc' = [pc EXCEPT ![c] = "url_open"]
                   /\ frame' = [frame EXCEPT ![c].filename = uniqueFilename]
                   /\ UNCHANGED response
    /\ UNCHANGED <<store, now, issued, request, call>>

\* await openDB() returns; storeImage builds the record and issues the put
UrlOpen(c) ==
    /\ pc[c] = "url_open"
    /\ \E ok \in BOOLEAN :
          IF ok
          THEN /\ pc' = [pc EXCEPT ![c] = "url_put"]
               /\ frame' = [Called(c, "open", <<>>, TRUE) EXCEPT
                               ![c].item = imageData(frame[c].filename, frame[c].blob, now)]
               /\ UNCHANGED response
          ELSE /\ frame' = Called(c, "open", <<>>, FALSE)
               /\ Return(c, FailureResponse(StoreErrorMessage))
    /\ UNCHANGED <<store, now, issued, request, call>>

\* await storeImage(db, uniqueFilename, blob) returns.  On success the record
\* is in the store; building the response body then throws the ReferenceError
\* on API_BASE, which the handler's catch turns into status 500.
UrlPut(c) ==
    /\ pc[c] = "url_put"
    /\ \E ok \in BOOLEAN :
          /\ frame' = Called(c, "put", frame[c].filename, ok)
          /\ IF ok
             THEN /\ store' = StorePut(store, frame[c].item)
                  /\ Return(c, FailureResponse(ApiBaseReferenceError))
             ELSE /\ UNCHANGED store
                  /\ Return(c, FailureResponse(StoreErrorMessage))
    /\ UNCHANGED <<now, issued, request, call>>

(***************************************************************************)
(* handleDeleteImage.                                                      *)
(***************************************************************************)
\* `Image ${filename} deleted`
DeletedMessage(filename) ==
    <<"I", "m", "a", "g", "e", " ">> \o filename \o <<" ", "d", "e", "l", "e", "t", "e", "d">>

\* await openDB() returns; deleteImage issues the delete
DeleteOpen(c) ==
    /\ pc[c] = "delete_open"
    /\ \E ok \in BOOLEAN :
          /\ frame' = Called(c, "open", <<>>, ok)
          /\ IF ok
             THEN /\ pc' = [pc EXCEPT ![c] = "delete_run"]
                  /\ UNCHANGED response
             ELSE Return(c, FailureResponse(StoreErrorMessage))
    /\ UNCHANGED <<store, now, issued, request, call>>

\* await deleteImage(db, filename) returns
DeleteRun(c) ==
    /\ pc[c] = "delete_run"
    /\ \E ok \in BOOLEAN :
          /\ frame' = Called(c, "delete", frame[c].filename, ok)
          /\ IF ok
             THEN /\ store' = StoreDelete(store, frame[c].filename)
                  /\ Return(c, JsonCorsResponse(200,
                         [success |-> TRUE, message |-> DeletedMessage(frame[c].filename)]))
             ELSE /\ UNCHANGED store
                  /\ Return(c, FailureResponse(StoreErrorMessage))
    /\ UNCHANGED <<now, issued, request, call>>

(***************************************************************************)
(* handleServeImage.                                                       *)
(***************************************************************************)
\* ImageResponse without the blob
ImageResponse_NoBody(filename, img) ==
    [outcome |-> "response", status |-> 200,
     headers |-> [contentType  |-> getContentType(filename),
                  cacheControl |-> "public, max-age=31536000",
                  allowOrigin  |-> "*"],
     body |-> NoBlob]

\* new Response(imageData.blob, {status: 200, headers})
ImageResponse(filename, img) ==
    [outcome |-> "response", status |-> 200,
     headers |-> [contentType  |-> getContentType(filename),
                  cacheControl |-> "public, max-age=31536000",
                  allowOrigin  |-> "*"],
     body |-> img.blob]

\* await openDB() returns; getImage issues the get
ServeOpen(c) ==
    /\ pc[c] = "serve_open"
    /\ \E ok \in BOOLEAN :
          /\ frame' = Called(c, "open", <<>>, ok)
          /\ IF ok
             THEN /\ pc' = [pc EXCEPT ![c] = "serve_get"]
                  /\ UNCHANGED response
             ELSE Return(c, TextResponse(500, <<"S", "e", "r", "v", "e", "r", " ", "E", "r", "r", "o", "r">>))
    /\ UNCHANGED <<store, now, issued, request, call>>

\* await getImage(db, filename) returns
ServeGet(c) ==
    /\ pc[c] = "serve_get"
    /\ \E ok \in BOOLEAN :
          LET found == StoreGet(store, frame[c].filename)
          IN  /\ frame' = Called(c, "get", frame[c].filename, ok)
              /\ IF ~ok
                 THEN Return(c, TextResponse(500, <<"S", "e", "r", "v", "e", "r", " ", "E", "r", "r", "o", "r">>))
                 ELSE IF found = {}
                 THEN Return(c, TextResponse(404, <<"I", "m", "a", "g", "e", " ", "n", "o", "t", " ", "f", "o", "u", "n", "d">>))
                 ELSE Return(c, ImageResponse(frame[c].filename, CHOOSE img \in found : TRUE))
    /\ UNCHANGED <<store, now, issued, request, call>>

(***************************************************************************)
(* The specification.                                                      *)
(***************************************************************************)
Next ==
    \/ Tick
    \/ \E c \in Clients : Fetch(c)
    \/ \E c \in Clients : ListOpen(c)
    \/ \E c \in Clients : ListGetAll(c)
    \/ \E c \in Clients : UploadForm(c)
    \/ \E c \in Clients : UploadOpen(c)
    \/ \E c \in Clients : UploadPut(c)
    \/ \E c \in Clients : UrlJson(c)
    \/ \E c \in Clients : UrlFetch(c)
    \/ \E c \in Clients : UrlBlob(c)
    \/ \E c \in Clients : UrlOpen(c)
    \/ \E c \in Clients : UrlPut(c)
    \/ \E c \in Clients : DeleteOpen(c)
    \/ \E c \in Clients : DeleteRun(c)
    \/ \E c \in Clients : ServeOpen(c)
    \/ \E c \in Clients : ServeGet(c)

Spec == Init /\ [][Next]_vars

(***************************************************************************)
(* The helpers on their own.  generateUniqueFilename and getContentType    *)
(* are pure but for Date.now() and Math.random(); HelperSpec draws a name, *)
(* a clock value and a random suffix and evaluates one of them.            *)
(***************************************************************************)
NameChars == {"p", "n", "g", ".", "/"}

\* every string of 1..MaxNameLen characters of NameChars, and the names the
\* requests carry
Names ==
    UNION { [1..n -> NameChars] : n \in 1..MaxNameLen }
        \cup { CatPng, XGif, Readme, AConstructor }

\* values of Date.now(): small ones and one of many digits
Timestamps == 0..MaxTime \cup { 1730419200 }

InitHelpers ==
    /\ store = {}
    /\ now \in Timestamps
    /\ issued = 0
    /\ pc = [c \in Clients |-> "idle"]
    /\ request = [c \in Clients |-> NoRequest]
    /\ frame = [c \in Clients |-> NoFrame]
    /\ response = [c \in Clients |-> NoResponse]
    /\ call \in { [NoCall EXCEPT !.name = name] : name \in Names }

\* generateUniqueFilename(name)
CallGenerateUniqueFilename ==
    /\ call.fn = "none"
    /\ \E random \in RandomStrings :
          call' = [call EXCEPT !.fn = "generateUniqueFilename",
                               !.now = now,
                               !.random = random,
                               !.generated = generateUniqueFilename(call.name, now, random)]
    /\ UNCHANGED <<store, now, issued, pc, request, frame, response>>

\* getContentType(name)
CallGetContentType ==
    /\ call.fn = "none"
    /\ call' = [call EXCEPT !.fn = "getContentType", !.type = getContentType(call.name)]
    /\ UNCHANGED <<store, now, issued, pc, request, frame, response>>

NextHelpers ==
    \/ CallGenerateUniqueFilename
    \/ CallGetContentType

HelperSpec == InitHelpers /\ [][NextHelpers]_vars

(***************************************************************************)
(* Properties.                                                             *)
(***************************************************************************)
\* The request's URL is not under the registered scope: another origin, or a
\* path that does not begin with the scope's path
OutsideScope(req) ==
    \/ req.url.origin # Scope.origin
    \/ Len(req.url.pathname) < Len(Scope.pathname)
    \/ \E i \in 1..Len(Scope.pathname) : req.url.pathname[i] # Scope.pathname[i]

\* every store call the request made succeeded
NoStoreFailure(c) == \A i \in 1..Len(frame[c].ops) : frame[c].ops[i].ok

\* the request made a store call `op` that succeeded
Did(c, op) == \E i \in 1..Len(frame[c].ops) : frame[c].ops[i].op = op /\ frame[c].ops[i].ok

\* C1 (pass-through): a request whose origin differs from the scope's origin,
\* or whose path does not start with the scope's path, is never given a
\* response by the worker (respondWith is not called), no handler runs for
\* it and it makes no store call, so the store is as it was.
C1_PassThrough ==
    \A c \in Clients :
        (pc[c] # "idle" /\ OutsideScope(request[c]))
            => /\ pc[c] = "done"
               /\ response[c].outcome = "network"
               /\ frame[c].handler = "none"
               /\ frame[c].ops = <<>>

\* C1 witness: a request to another origin and a same-origin request outside
\* the scope's path have both been dispatched, with records in the store
C1_Witness ==
    \E c, d \in Clients :
        /\ pc[c] = "done" /\ request[c].url.origin = OtherOrigin
        /\ pc[d] = "done" /\ request[d].url.origin = Scope.origin /\ OutsideScope(request[d])
        /\ store # {}

\* C2 (no error escapes the dispatcher): for a request under the scope, the
\* promise given to respondWith never rejects; it resolves to a response.
C2_NoErrorEscapes ==
    \A c \in Clients :
        (pc[c] = "done" /\ ~OutsideScope(request[c]) /\ response[c].outcome # "network")
            => response[c].outcome = "response"

\* The six routes of the API, by method and path relative to the scope
IsRoute(method, relativePath) ==
    \/ method = "GET"    /\ relativePath = ListJson
    \/ method = "POST"   /\ relativePath = Upload
    \/ method = "POST"   /\ relativePath = UploadUrl
    \/ method = "GET"    /\ relativePath = Api
    \/ method = "GET"    /\ StartsWith(relativePath, GetSlash)
    \/ method = "DELETE" /\ StartsWith(relativePath, DeleteSlash)

\* C3 (unmatched in-scope requests): a request under the scope whose method
\* and relative path are not one of the six routes is answered by the worker
\* with status 404; it is not left to the network.
C3_UnmatchedIs404 ==
    \A c \in Clients :
        (/\ pc[c] # "idle"
         /\ ~OutsideScope(request[c])
         /\ ~IsRoute(request[c].method, RelativePath(request[c].url)))
            => /\ pc[c] = "done"
               /\ response[c].outcome = "response"
               /\ response[c].status = 404

\* C4 (Info): GET {scope}/api is answered with status 200 and a JSON body,
\* without any store call.
C4_InfoIs200 ==
    \A c \in Clients :
        (/\ pc[c] # "idle"
         /\ ~OutsideScope(request[c])
         /\ request[c].method = "GET"
         /\ RelativePath(request[c].url) = Api)
            => /\ pc[c] = "done"
               /\ response[c].outcome = "response"
               /\ response[c].status = 200
               /\ response[c].headers.contentType = "application/json"
               /\ frame[c].ops = <<>>

\* C5 (Upload): an upload whose multipart body carries one or more files in
\* `images`, with no store failure, is answered with status 200 and
\* {success: true, uploaded} with one entry per file.
C5_UploadIs200 ==
    \A c \in Clients :
        (/\ pc[c] = "done"
         /\ frame[c].handler = "handleUploadImage"
         /\ request[c].body.kind = "form"
         /\ FilesFrom(request[c].body.images, 1) # {}
         /\ NoStoreFailure(c))
            => /\ response[c].outcome = "response"
               /\ response[c].status = 200
               /\ response[c].body.success
               /\ Len(response[c].body.uploaded)
                      = Cardinality(FilesFrom(request[c].body.images, 1))

\* C6 (UploadFromURL): an upload from a URL whose remote fetch succeeded and
\* whose store calls succeeded (the record was put) is answered with status
\* 200 and {success: true, filename, size, type, url} describing the record.
C6_UploadFromUrlIs200 ==
    \A c \in Clients :
        (/\ pc[c] = "done"
         /\ frame[c].handler = "handleUploadFromUrl"
         /\ Did(c, "put")
         /\ NoStoreFailure(c))
            => /\ response[c].outcome = "response"
               /\ response[c].status = 200
               /\ response[c].body.success
               /\ response[c].body.filename = frame[c].filename
               /\ response[c].body.size = BlobSize(frame[c].blob)
               /\ response[c].body.url = ImageUrl(frame[c].filename)

\* the step of slot c from position `at` that settles its promise
Completes(c, at) == pc[c] = at /\ pc'[c] = "done"

\* the outcome of the last store call of slot c after the step
LastCallOk(c) == frame'[c].ops[Len(frame'[c].ops)].ok

\* C7 (List agrees with the store): when List answers, then for every record
\* in the store (written by Upload or UploadFromURL and not deleted since)
\* the list holds exactly one entry with the record's filename, and that
\* entry's size is the byte length of the stored blob and its type is the
\* media type declared for the blob, image/jpeg when none was declared.
C7_ListMatchesStore ==
    [][\A c \in Clients :
          (Completes(c, "list_getAll") /\ response'[c].status = 200)
              => LET list == response'[c].body
                 IN  \A item \in store :
                        /\ Cardinality({ i \in 1..Len(list) : list[i].filename = item.filename }) = 1
                        /\ \A i \in 1..Len(list) :
                              list[i].filename = item.filename
                                  => /\ list[i].size = Len(item.blob.data)
                                     /\ list[i].type = IF item.blob.type = ""
                                                       THEN "image/jpeg"
                                                       ELSE item.blob.type]_vars

\* C7 witness: List has answered with an entry for a record that an upload of
\* this run put, whose blob is not empty
C7_Witness ==
    \E c, d \in Clients :
        /\ pc[c] = "done" /\ frame[c].handler = "handleListImages"
        /\ response[c].status = 200
        /\ frame[d].handler \in {"handleUploadImage", "handleUploadFromUrl"}
        /\ Did(d, "put")
        /\ \E i \in 1..Len(response[c].body) :
              /\ response[c].body[i].filename = frame[d].filename
              /\ response[c].body[i].size > 0

\* C8 (round trip): when Serve(f) looks f up while a record is stored under f
\* (and the lookup itself does not fail), it answers 200 with a body
\* identical to the blob that was stored and a Content-Type that is the
\* table's entry for the extension of f, image/jpeg for an extension that is
\* not in the table.
C8_RoundTrip ==
    [][\A c \in Clients :
          (Completes(c, "serve_get") /\ LastCallOk(c)
             /\ StoreGet(store, frame[c].filename) # {})
              => /\ response'[c].outcome = "response"
                 /\ response'[c].status = 200
                 /\ \A item \in StoreGet(store, frame[c].filename) :
                        response'[c].body = item.blob
                 /\ LET ext == SplitPop(toLowerCase(frame[c].filename), ".")
                    IN  response'[c].headers.contentType
                            = IF \E k \in 1..Len(TypeTable) : TypeTable[k][1] = ext
                              THEN TypeTable[CHOOSE k \in 1..Len(TypeTable) :
                                                 TypeTable[k][1] = ext][2]
                              ELSE "image/jpeg"]_vars

\* C9 (Serve and absence): a lookup that finds no record under f is answered
\* 404 and one that finds a record is answered 200; Serve answers 200 only
\* when a record is stored under f; no step of Serve changes the store.
C9_ServeAbsent ==
    [][\A c \in Clients :
          /\ (Completes(c, "serve_get") /\ LastCallOk(c))
                => response'[c].status
                       = IF \E item \in store : item.filename = frame[c].filename
                         THEN 200 ELSE 404
          /\ (pc[c] \in {"serve_open", "serve_get"} /\ pc'[c] = "done"
                /\ response'[c].status = 200)
                => \E item \in store : item.filename = frame[c].filename
          /\ (pc[c] \in {"serve_open", "serve_get"} /\ pc'[c] # pc[c])
                => store' = store]_vars

\* C9 witness: Serve(f) answered 404 for an f that was stored when the worker
\* started and that a completed Delete(f) removed, and the store still holds
\* no record under f
C9_Witness ==
    \E c, d \in Clients :
        /\ pc[c] = "done" /\ frame[c].handler = "handleServeImage"
        /\ response[c].status = 404
        /\ pc[d] = "done" /\ frame[d].handler = "handleDeleteImage"
        /\ response[d].status = 200
        /\ frame[c].filename = PersistedItem.filename
        /\ frame[d].filename = PersistedItem.filename
        /\ store = {}

\* the JSON body of a successful Delete(f)
DeleteSucceeded(resp, f) ==
    /\ resp.outcome = "response"
    /\ resp.status = 200
    /\ resp.body.success
    /\ resp.body.message = <<"I", "m", "a", "g", "e", " ">> \o f \o <<" ", "d", "e", "l", "e", "t", "e", "d">>

\* C10 (idempotent delete): a Delete(f) whose store calls do not fail answers
\* 200 {success: true, message} whether or not f is stored; after it no
\* record is stored under f and every other record is as before, so a
\* Delete(f) of an absent f answers the same and leaves the store as it was.
C10_DeleteIdempotent ==
    [][\A c \in Clients :
          (Completes(c, "delete_run") /\ LastCallOk(c))
              => /\ DeleteSucceeded(response'[c], frame[c].filename)
                 /\ store' = { item \in store : item.filename # frame[c].filename }
                 /\ ((\A item \in store : item.filename # frame[c].filename)
                        => store' = store)]_vars

\* C10 witness: two Delete(f) for the same f, stored when the worker started,
\* have both answered 200, and a record under another key is still stored
C10_Witness ==
    \E c, d \in Clients :
        /\ c # d
        /\ pc[c] = "done" /\ pc[d] = "done"
        /\ frame[c].handler = "handleDeleteImage" /\ frame[d].handler = "handleDeleteImage"
        /\ frame[c].filename = frame[d].filename
        /\ DeleteSucceeded(response[c], frame[c].filename)
        /\ DeleteSucceeded(response[d], frame[d].filename)
        /\ frame[c].filename = PersistedItem.filename
        /\ store = {}

(***************************************************************************)
(* Properties of the error paths and of the helpers.                       *)
(***************************************************************************)
\* the JSON body {success: false, error: "URL is required"}
UrlIsRequired ==
    [success |-> FALSE,
     error |-> <<"U", "R", "L", " ", "i", "s", " ", "r", "e", "q", "u", "i", "r", "e", "d">>]

\* C11 (UploadFromURL without a url): when the JSON body of POST upload-url
\* has no url (missing, or the empty string), the step that reads the body
\* answers status 400 with {success: false, error: "URL is required"}; the
\* handler ends there, so fetch(url) is never called and no store call is
\* made, and the store is unchanged.
C11_UrlRequired ==
    [][\A c \in Clients :
          (/\ pc[c] = "url_json" /\ pc'[c] # "url_json"
           /\ request[c].body.kind = "json"
           /\ ~request[c].body.url.given)
              => /\ pc'[c] = "done"
                 /\ response'[c].outcome = "response"
                 /\ response'[c].status = 400
                 /\ response'[c].headers.contentType = "application/json"
                 /\ response'[c].body = UrlIsRequired
                 /\ frame'[c].remoteStatus = 0
                 /\ frame'[c].ops = <<>>
                 /\ store' = store]_vars

\* C11 witness: an UploadFromURL with a JSON body without url was answered
\* 400 while the store held a record
C11_Witness ==
    \E c \in Clients :
        /\ pc[c] = "done" /\ frame[c].handler = "handleUploadFromUrl"
        /\ request[c].body.kind = "json" /\ ~request[c].body.url.given
        /\ response[c].status = 400
        /\ store # {}

\* s occurs in t as a substring
Includes(t, s) == \E i \in 0..(Len(t) - Len(s)) : SubSeq(t, i + 1, i + Len(s)) = s

\* the number of decimal digits of n, 0 <= n < 2^31
NumDigits(n) ==
    IF n < 10 THEN 1
    ELSE CHOOSE k \in 2..10 : 10^(k - 1) <= n /\ (k = 10 \/ n < 10^k)

\* the decimal digits of n, written without the model's conversion
Digits(n) ==
    [i \in 1..NumDigits(n) |->
        LET d == (n \div 10^(NumDigits(n) - i)) % 10
        IN  CASE d = 0 -> "0" [] d = 1 -> "1" [] d = 2 -> "2" [] d = 3 -> "3" [] d = 4 -> "4"
              [] d = 5 -> "5" [] d = 6 -> "6" [] d = 7 -> "7" [] d = 8 -> "8" [] d = 9 -> "9"]

\* C12 (UploadFromURL, remote failure): when fetch(url) returns a response
\* whose status is not a success (not in 200..299), the request is answered
\* status 500 with {success: false, error} where error includes the remote
\* status in decimal; no store call is made and the store is unchanged.
C12_RemoteFailure ==
    [][\A c \in Clients :
          (/\ pc[c] = "url_fetch" /\ pc'[c] # "url_fetch"
           /\ frame'[c].remoteStatus # 0
           /\ frame'[c].remoteStatus \notin 200..299)
              => /\ pc'[c] = "done"
                 /\ response'[c].outcome = "response"
                 /\ response'[c].status = 500
                 /\ response'[c].body.success = FALSE
                 /\ Includes(response'[c].body.error, Digits(frame'[c].remoteStatus))
                 /\ frame'[c].ops = <<>>
                 /\ store' = store]_vars

\* C12 witness: the remote answered 404 to an UploadFromURL, which was
\* answered 500, while the store held a record
C12_Witness ==
    \E c \in Clients :
        /\ pc[c] = "done" /\ frame[c].handler = "handleUploadFromUrl"
        /\ frame[c].remoteStatus = 404
        /\ response[c].status = 500
        /\ store # {}

\* <rest> of the request's path, after get/ or delete/
Rest(req) ==
    IF req.method = "GET"
    THEN SubSeq(RelativePath(req.url), Len(GetSlash) + 1, Len(RelativePath(req.url)))
    ELSE SubSeq(RelativePath(req.url), Len(DeleteSlash) + 1, Len(RelativePath(req.url)))

\* C13 (malformed percent-encoding): a Serve or Delete request under the
\* scope whose <rest> is not valid percent-encoding is answered with status
\* 400, and it makes no store call.
C13_MalformedIs400 ==
    \A c \in Clients :
        (/\ pc[c] # "idle"
         /\ ~OutsideScope(request[c])
         /\ \/ request[c].method = "GET" /\ StartsWith(RelativePath(request[c].url), GetSlash)
            \/ request[c].method = "DELETE" /\ StartsWith(RelativePath(request[c].url), DeleteSlash)
         /\ ~decodeURIComponent(Rest(request[c])).ok)
            => /\ pc[c] = "done"
               /\ response[c].outcome = "response"
               /\ response[c].status = 400
               /\ frame[c].ops = <<>>

\* position of the last "." of name, 0 when it has none
LastDot(name) ==
    IF \E i \in 1..Len(name) : name[i] = "."
    THEN CHOOSE i \in 1..Len(name) : name[i] = "." /\ \A j \in (i + 1)..Len(name) : name[j] # "."
    ELSE 0

\* C14 (Filename Generator): the generated name is <timestamp>-<random6>-
\* followed, for an original name without ".", by the name alone (no trailing
\* .<ext>), and for a name with an extension by <base>.<ext>, the extension
\* being what follows the last "." and the base what precedes it.
C14_GeneratedName ==
    call.fn = "generateUniqueFilename"
        => LET p      == LastDot(call.name)
               prefix == Digits(call.now) \o <<"-">> \o call.random \o <<"-">>
           IN  /\ Len(call.random) = 6
               /\ call.generated
                      = IF p = 0
                        THEN prefix \o call.name
                        ELSE prefix \o SubSeq(call.name, 1, p - 1) \o <<".">>
                                 \o SubSeq(call.name, p + 1, Len(call.name))

\* the table of 4.4: extension and MIME type
MimeOf(ext) ==
    CASE ext = <<"j", "p", "g">>      -> "image/jpeg"
      [] ext = <<"j", "p", "e", "g">> -> "image/jpeg"
      [] ext = <<"p", "n", "g">>      -> "image/png"
      [] ext = <<"g", "i", "f">>      -> "image/gif"
      [] ext = <<"w", "e", "b", "p">> -> "image/webp"
      [] ext = <<"s", "v", "g">>      -> "image/svg+xml"
      [] ext = <<"b", "m", "p">>      -> "image/bmp"
      [] ext = <<"a", "v", "i", "f">> -> "image/avif"
      [] ext = <<"t", "i", "f", "f">> -> "image/tiff"
      [] OTHER                        -> "image/jpeg"

\* C15 (Content-Type Resolver): the result is the table's entry for the
\* lower-cased extension (what follows the last ".") when the table has it,
\* and image/jpeg when the extension is unknown or the name has no ".".
C15_ContentType ==
    call.fn = "getContentType"
        => LET p == LastDot(call.name)
           IN  call.type
                  = IF p = 0
                    THEN "image/jpeg"
                    ELSE MimeOf(toLowerCase(SubSeq(call.name, p + 1, Len(call.name))))

(***************************************************************************)
(* Properties of the store across requests.                                *)
(***************************************************************************)
\* the File entries of a multipart body
Files(body) == { k \in 1..Len(body.images) : body.images[k].isFile }

DeleteOf(c, f) ==
    /\ request[c].method = "DELETE"
    /\ StartsWith(RelativePath(request[c].url), DeleteSlash)
    /\ decodeURIComponent(Rest(request[c])) = [ok |-> TRUE, value |-> f]
    /\ pc[c] = "delete_run" /\ pc'[c] = "done"

\* slot c holds an Upload or UploadFromURL whose storeImage writes under f now
WriteOf(c, f) ==
    /\ request[c].method = "POST"
    /\ pc[c] \in {"upload_put", "url_put"} /\ pc'[c] = "done"
    /\ frame[c].filename = f

\* C17 (lifecycle frame): in every step, a record stored under f is still
\* stored, unchanged in blob, size, type and timestamp, unless the step is
\* the delete of a Delete request for f, or the write of an Upload or
\* UploadFromURL under the same generated filename f.  List, Serve, Info,
\* unmatched requests, the Delete of another filename and uploads under
\* another filename leave it as it is.
C17_LifecycleFrame ==
    [][\A item \in store :
          item \notin store'
              => \E c \in Clients : DeleteOf(c, item.filename) \/ WriteOf(c, item.filename)]_vars

\* C17 witness: the record stored when the worker started is still stored
\* after an upload wrote a record under another filename and a Delete of
\* another filename was answered 200
C17_Witness ==
    \E c, d \in Clients :
        /\ pc[c] = "done" /\ frame[c].handler \in {"handleUploadImage", "handleUploadFromUrl"}
        /\ Did(c, "put") /\ frame[c].filename # PersistedItem.filename
        /\ pc[d] = "done" /\ frame[d].handler = "handleDeleteImage"
        /\ response[d].status = 200 /\ frame[d].filename # PersistedItem.filename
        /\ PersistedItem \in store
        /\ Cardinality(store) = 2

\* slots c and d hold a Serve and a Delete of the same filename, both
\* dispatched and neither replaced
Racing(c, d) ==
    /\ c # d
    /\ frame[c].handler = "handleServeImage" /\ frame[d].handler = "handleDeleteImage"
    /\ frame[c].filename = frame[d].filename
    /\ frame'[c].handler = "handleServeImage" /\ frame'[d].handler = "handleDeleteImage"

\* C18 (Delete racing Serve): with a Serve(f) and a Delete(f) dispatched
\* together, in every interleaving of their steps: a Serve whose lookup
\* returns answers 200 with the whole blob of the record stored under f, or
\* 404 when the record is gone, and nothing else; a Delete whose delete
\* returns answers 200 and leaves no record under f; once both have
\* completed, the Delete without a store failure, no record is under f.
C18_DeleteRacesServe ==
    [][\A c, d \in Clients :
          Racing(c, d)
              => /\ (Completes(c, "serve_get") /\ LastCallOk(c))
                        => \/ /\ \A item \in store : item.filename # frame[c].filename
                              /\ response'[c].outcome = "response"
                              /\ response'[c].status = 404
                           \/ \E item \in store :
                                 /\ item.filename = frame[c].filename
                                 /\ response'[c].outcome = "response"
                                 /\ response'[c].status = 200
                                 /\ response'[c].body = item.blob
                                 /\ BlobSize(response'[c].body) = item.size
                 /\ (Completes(d, "delete_run") /\ LastCallOk(d))
                        => /\ DeleteSucceeded(response'[d], frame[d].filename)
                           /\ \A item \in store' : item.filename # frame[d].filename
                 /\ (/\ pc'[c] = "done" /\ pc'[d] = "done"
                     /\ \A i \in 1..Len(frame'[d].ops) : frame'[d].ops[i].ok)
                        => \A item \in store' : item.filename # frame[d].filename]_vars

\* C18 witness: a Serve(f) and a Delete(f) are both at their store call, the
\* get and the delete issued and neither returned, with f stored
C18_Witness ==
    \E c, d \in Clients :
        /\ pc[c] = "serve_get" /\ pc[d] = "delete_run"
        /\ frame[c].filename = PersistedItem.filename
        /\ frame[d].filename = PersistedItem.filename
        /\ PersistedItem \in store

\* slot c holds a completed Upload or UploadFromURL that wrote its record
Uploaded(c) ==
    /\ pc[c] = "done"
    /\ frame[c].handler \in {"handleUploadImage", "handleUploadFromUrl"}
    /\ Did(c, "put")
    /\ NoStoreFailure(c)

\* the filenames the response of slot c describes
Described(c) ==
    IF response[c].outcome # "response" \/ response[c].status # 200 THEN {}
    ELSE IF frame[c].handler = "handleUploadImage"
    THEN { response[c].body.uploaded[i].filename : i \in 1..Len(response[c].body.uploaded) }
    ELSE { response[c].body.filename }

\* C19 (independent invocations): when two Upload/UploadFromURL requests
\* that ran concurrently under distinct generated filenames have both
\* completed, both records are in the store and the response of each
\* describes its own file and no other.
C19_IndependentUploads ==
    \A c, d \in Clients :
        (c # d /\ Uploaded(c) /\ Uploaded(d) /\ frame[c].filename # frame[d].filename)
            => /\ frame[c].item \in store
               /\ frame[d].item \in store
               /\ Described(c) = {frame[c].filename}
               /\ Described(d) = {frame[d].filename}

\* slot c holds an Upload with one file, or an UploadFromURL with a url
SingleUpload(c) ==
    \/ /\ frame[c].handler = "handleUploadImage"
       /\ request[c].body.kind = "form"
       /\ Cardinality(Files(request[c].body)) = 1
    \/ /\ frame[c].handler = "handleUploadFromUrl"
       /\ request[c].body.kind = "json"
       /\ request[c].body.url.given

\* C20 (response and store agree on failure): an Upload or UploadFromURL
\* that carries a single file or URL and is answered with a status other
\* than 200 has written nothing: no put of the request succeeded.
C20_FailureMeansNoWrite ==
    \A c \in Clients :
        (pc[c] = "done" /\ SingleUpload(c) /\ response[c].status # 200)
            => ~Did(c, "put")

(***************************************************************************)
(* Properties relating List and Serve.                                     *)
(***************************************************************************)
\* the media type a blob declares, image/jpeg when it declares none
DeclaredType(blob) == IF blob.type = "" THEN "image/jpeg" ELSE blob.type

\* the `type` of the entry List reports for a stored record
ListedType(item) == imageList(<<item>>)[1].type

\* C21, as claimed (List and Serve agree on the type): when Serve answers 200
\* for a stored item, its Content-Type header equals the `type` that List
\* reports for that item.
C21_TypesAgree ==
    [][\A c \in Clients :
          (Completes(c, "serve_get") /\ response'[c].status = 200)
              => \A item \in StoreGet(store, frame[c].filename) :
                     response'[c].headers.contentType = ListedType(item)]_vars

\* C21, amended: for a stored item, List reports the media type its blob
\* declared when it was written (image/jpeg when it declared none), whatever
\* its filename, and Serve's Content-Type is what getContentType gives for
\* its filename, whatever its blob; the two are equal exactly when the
\* declared type is the one getContentType gives for the filename.
C21_TypesAgreeWhenDeclared ==
    [][\A c \in Clients :
          (Completes(c, "serve_get") /\ response'[c].status = 200)
              => \A item \in StoreGet(store, frame[c].filename) :
                     /\ ListedType(item) = DeclaredType(item.blob)
                     /\ response'[c].headers.contentType = getContentType(item.filename)
                     /\ (response'[c].headers.contentType = ListedType(item))
                            <=> (DeclaredType(item.blob) = getContentType(item.filename))]_vars

\* C21 witness: Serve answered 200 with Content-Type image/png for a stored
\* item named ...cat.png whose blob declared no type, which List reports as
\* image/jpeg
C21_Witness ==
    \E c \in Clients :
        /\ pc[c] = "done" /\ frame[c].handler = "handleServeImage"
        /\ response[c].status = 200
        /\ response[c].headers.contentType = "image/png"
        /\ \E item \in store :
              /\ item.filename = frame[c].filename
              /\ item.blob.type = ""
              /\ ListedType(item) = "image/jpeg"

====
